---------------------------- MODULE Spec2Model ----------------------------
(***************************************************************************)
(* Model of the batch text-extraction handler of src/index.mjs (the        *)
(* active variant, lines 227-420): the TesseractWorkerSingleton manager,    *)
(* processFile and its two extraction paths, and the handler that joins    *)
(* the per-file tasks and tears the worker down.                           *)
(*                                                                         *)
(* JavaScript runs one job at a time.  An action of this model is one job  *)
(* of the event loop (a handler invocation, or the settlement of one       *)
(* collaborator promise) together with every promise reaction it queues,   *)
(* run to the next pending collaborator call.                              *)
(***************************************************************************)
EXTENDS Integers, Sequences, FiniteSets, TLC

\* ------------------------------------------------------------------ bounds
NumHandlers == 2
MaxFiles == 2
MaxCreate == 3
MaxInvocations == 4
MaxBatches == 2

Handlers == 1..NumHandlers
Promises == 1..MaxCreate

\* --------------------------------------------------------- content sniffing
PdfSignature == <<37, 80, 68, 70>>
PngSignature == <<137, 80, 78, 71, 13, 10, 26, 10>>

Prefix(buffer, n) == [k \in 1..n |-> buffer[k]]

isPdf(buffer) == Len(buffer) > 4 /\ Prefix(buffer, 4) = PdfSignature

\* isJpeg comparing the first two bytes only.
isJpegTwoBytes(buffer) == Len(buffer) > 1 /\ buffer[1] = 255 /\ buffer[2] = 216

isJpeg(buffer) ==
    Len(buffer) > 3 /\ buffer[1] = 255 /\ buffer[2] = 216 /\ buffer[3] = 255

isPng(buffer) == Len(buffer) > 8 /\ Prefix(buffer, 8) = PngSignature

isImageFile(buffer) == isJpeg(buffer) \/ isPng(buffer)

determineMimeType(buffer) ==
    IF isPdf(buffer) THEN "application/pdf"
    ELSE IF isJpeg(buffer) THEN "image/jpeg"
    ELSE IF isPng(buffer) THEN "image/png"
    ELSE "application/octet-stream"

\* String.prototype.includes: sub occurs in s as a substring.
includes(s, sub) ==
    \E k \in 0..(Len(s) - Len(sub)) : SubSeq(s, k + 1, k + Len(sub)) = sub

\* contentType.includes('image') and contentType.includes('pdf'), lines 339
\* and 342.
includesImage(contentType) == includes(contentType, "image")
includesPdf(contentType) == includes(contentType, "pdf")


\* -------------------------------------------------------------- file inputs
\* A FileInput after JSON decoding.  isNull: the array entry itself is null.
\* hasBuffer: the fileBuffer field is present; fileBuffer holds the decoded
\* bytes.  filename and contentType are "" when absent (both falsy in JS).
File(isNull, hasBuffer, bytes, name, ctype) ==
    [isNull |-> isNull, hasBuffer |-> hasBuffer, fileBuffer |-> bytes,
     filename |-> name, contentType |-> ctype]

JpegFile == File(FALSE, TRUE, <<255, 216, 255, 224>>, "a.jpg", "text/plain")
PdfFile == File(FALSE, TRUE, <<37, 80, 68, 70, 45>>, "b.pdf", "")
UnknownFile == File(FALSE, TRUE, <<1, 2>>, "", "")
MissingFile == File(FALSE, FALSE, <<>>, "c.png", "image/png")
NullFile == File(TRUE, FALSE, <<>>, "", "")

FileInputs == {JpegFile, PdfFile, UnknownFile, MissingFile, NullFile}

\* The sequences over S of length at most n.
RECURSIVE SeqsUpTo(_, _)
SeqsUpTo(S, n) ==
    IF n = 0 THEN {<<>>}
    ELSE LET shorter == SeqsUpTo(S, n - 1)
         IN  shorter \cup {Append(q, x) : q \in shorter, x \in S}

\* The event passed to the handler: no event object at all, an event with no
\* files field, or an event carrying a files array (possibly empty).
Events ==
    {[kind |-> "noevent", files |-> <<>>], [kind |-> "nofiles", files |-> <<>>]}
    \cup {[kind |-> "files", files |-> fs] : fs \in SeqsUpTo(FileInputs, MaxFiles)}

\* Values a collaborator promise can reject with: an Error (has a message),
\* a value without a message property (a string, a plain object), null or
\* undefined.
Thrown == {"Error", "NoMessage", "Nullish"}

\* ------------------------------------------------------------------ results
NoResult ==
    [filename |-> "", success |-> FALSE, extractedText |-> "none", error |-> "none"]

\* processFile, lines 349-353
SuccessResult(f, text) ==
    [filename |-> IF f.filename # "" THEN f.filename ELSE "document",
     success |-> TRUE, extractedText |-> text, error |-> "absent"]

\* error.message of a caught value that is not null or undefined
MessageOf(e) == IF e = "Error" THEN "message" ELSE "undefined"

\* processFile, lines 356-361
FailureResult(f, e) ==
    [filename |-> IF f.filename # "" THEN f.filename ELSE "unknown",
     success |-> FALSE, extractedText |-> "null", error |-> MessageOf(e)]

\* ------------------------------------------------------------------- tasks
\* pc: "init" (getInstance awaiting the createWorker it started), "wait"
\* (getInstance awaiting an initialization already in progress), "sharp",
\* "recognize", "pdf" (awaiting that collaborator), "done" (processFile
\* resolved with result), "rejected" (processFile rejected).
Task(pc, worker, prom, result) ==
    [pc |-> pc, worker |-> worker, prom |-> prom, result |-> result]

Final == {"done", "rejected"}

\* processFile's catch block, lines 354-362: error.message and
\* fileInput.filename are read inside the catch, so a null or undefined
\* caught value, or a null fileInput, throws out of the catch block.
processFileCatch(f, e) ==
    IF f.isNull \/ e = "Nullish"
    THEN Task("rejected", 0, 0, NoResult)
    ELSE Task("done", 0, 0, FailureResult(f, e))

\* performOcrOnImage's catch block, lines 375-378: error.message is read
\* before the rethrow, so a null or undefined value is replaced by the
\* TypeError of that read.
performOcrOnImageCatch(e) == IF e = "Nullish" THEN "Error" ELSE e

\* ------------------------------------------------------ the worker manager
Manager(marker, calls, pstate) ==
    [initializingPromise |-> marker, createCalls |-> calls, promiseState |-> pstate]

\* getInstance without the check of the in-progress marker.
getInstanceStartNoMarker(inst, m) ==
    IF inst # 0
    THEN [outcome |-> "ready", prom |-> 0, m |-> m]
    ELSE LET p == m.createCalls + 1
         IN  [outcome |-> "first", prom |-> p,
              m |-> Manager(p, p, [m.promiseState EXCEPT ![p] = "pending"])]

\* getInstance up to its first await, lines 239-253, for a caller that finds
\* `inst` in instance and the manager in state m.
getInstanceStart(inst, m) ==
    IF inst # 0
    THEN [outcome |-> "ready", prom |-> 0, m |-> m]
    ELSE IF m.initializingPromise = 0
    THEN LET p == m.createCalls + 1
         IN  [outcome |-> "first", prom |-> p,
              m |-> Manager(p, p, [m.promiseState EXCEPT ![p] = "pending"])]
    ELSE [outcome |-> "waiter", prom |-> m.initializingPromise, m |-> m]

\* performOcrOnImage up to its first pending await, lines 365-368.
performOcrOnImageStart(inst, m) ==
    LET g == getInstanceStart(inst, m)
    IN  [task |-> CASE g.outcome = "ready" -> Task("sharp", inst, 0, NoResult)
                    [] g.outcome = "first" -> Task("init", 0, g.prom, NoResult)
                    [] OTHER -> Task("wait", 0, g.prom, NoResult),
         m |-> g.m]

\* processFile acquiring the worker before it routes the file.
processFileStartEager(f, inst, m) ==
    IF f.isNull \/ ~f.hasBuffer
    THEN [task |-> processFileCatch(f, "Error"), m |-> m]
    ELSE LET contentType == IF f.contentType # "" THEN f.contentType
                            ELSE determineMimeType(f.fileBuffer)
         IN  IF includesImage(contentType) \/ isImageFile(f.fileBuffer)
             THEN performOcrOnImageStart(inst, m)
             ELSE IF includesPdf(contentType) \/ isPdf(f.fileBuffer)
             THEN [task |-> Task("pdf", 0, 0, NoResult),
                   m |-> getInstanceStart(inst, m).m]
             ELSE [task |-> processFileCatch(f, "Error"), m |-> m]

\* processFile up to its first pending await, lines 330-347.
processFileStart(f, inst, m) ==
    IF f.isNull \/ ~f.hasBuffer
    THEN [task |-> processFileCatch(f, "Error"), m |-> m]
    ELSE LET contentType == IF f.contentType # "" THEN f.contentType
                            ELSE determineMimeType(f.fileBuffer)
         IN  IF includesImage(contentType) \/ isImageFile(f.fileBuffer)
             THEN performOcrOnImageStart(inst, m)
             ELSE IF includesPdf(contentType) \/ isPdf(f.fileBuffer)
             THEN [task |-> Task("pdf", 0, 0, NoResult), m |-> m]
             ELSE [task |-> processFileCatch(f, "Error"), m |-> m]

\* files.map(file => processFile(file)), line 298: every task is started, in
\* input order, before any promise settles.
RECURSIVE LaunchAll(_, _, _, _)
LaunchAll(files, inst, m, acc) ==
    IF files = <<>>
    THEN [tasks |-> acc, m |-> m]
    ELSE LET r == processFileStart(Head(files), inst, m)
         IN  LaunchAll(Tail(files), inst, r.m, Append(acc, r.task))


\* ------------------------------------------------------------------- state
VARIABLES
    instance,             \* the singleton's `instance`: 0 (null) or a worker
    initializingPromise,  \* the singleton's marker: 0 (null) or a promise
    createCalls,          \* number of createWorker calls made so far
    promiseState,         \* of createWorker call p: none/pending/resolved/rejected
    termCalls,            \* number of terminate() calls made on each worker
    terminated,           \* workers whose terminate() has resolved
    hpc,                  \* position of each handler invocation
    hevent,               \* the event of each handler invocation
    hterm,                \* the worker whose terminate() the handler awaits
    herr,                 \* the value caught by the handler's catch block
    response,             \* the handler's return value
    tasks,                \* the per-file tasks of each handler invocation
    order,                \* the order in which the tasks of a handler settled
    hinv,                 \* number of invocations started in each handler slot
    disturbed             \* initializations overlapped by a teardown

vars ==
    <<instance, initializingPromise, createCalls, promiseState, termCalls,
      terminated, hpc, hevent, hterm, herr, response, tasks, order, hinv,
      disturbed>>

NoResponse == [statusCode |-> 0, message |-> "", body |-> <<>>]

Init ==
    /\ instance = 0
    /\ initializingPromise = 0
    /\ createCalls = 0
    /\ promiseState = [p \in Promises |-> "none"]
    /\ termCalls = [p \in Promises |-> 0]
    /\ terminated = {}
    /\ hpc = [h \in Handlers |-> "idle"]
    /\ hevent = [h \in Handlers |-> [kind |-> "nofiles", files |-> <<>>]]
    /\ hterm = [h \in Handlers |-> 0]
    /\ herr = [h \in Handlers |-> "none"]
    /\ response = [h \in Handlers |-> NoResponse]
    /\ tasks = [h \in Handlers |-> <<>>]
    /\ order = [h \in Handlers |-> <<>>]
    /\ hinv = [h \in Handlers |-> 0]
    /\ disturbed = {}

\* ------------------------------------------------------ the handler's join
RECURSIVE Ascending(_)
Ascending(S) ==
    IF S = {} THEN <<>>
    ELSE LET m == CHOOSE x \in S : \A y \in S : x <= y
         IN  <<m>> \o Ascending(S \ {m})

\* Promise.all(operations), line 299: rejected as soon as one task rejects,
\* fulfilled when every task is fulfilled.
JoinOutcome(ts) ==
    IF \E i \in 1..Len(ts) : ts[i].pc = "rejected" THEN "rejected"
    ELSE IF \A i \in 1..Len(ts) : ts[i].pc = "done" THEN "fulfilled"
    ELSE "pending"

PromiseAllByCompletion(results, completion) ==
    [k \in 1..Len(completion) |-> results[completion[k]]]

\* The value Promise.all fulfils with: the tasks' results by input position,
\* whatever the order `completion` in which they settled.
PromiseAll(results, completion) == results

\* The handler's empty-batch check, line 288: !files?.length
IsEmptyBatchAbsentOnly(ev) == ev.kind = "nofiles"

IsEmptyBatch(ev) == ev.kind = "nofiles" \/ (ev.kind = "files" /\ Len(ev.files) = 0)

EmptyResponse ==
    [statusCode |-> 200, message |-> "No files have been passed to processing.",
     body |-> <<>>]

\* lines 304-309
OkResponse(ts, completion) ==
    [statusCode |-> 200, message |-> "Text extraction completed",
     body |-> PromiseAll([i \in 1..Len(ts) |-> ts[i].result], completion)]

\* lines 316-321: err?.message ?? 'Error processing file.'
ErrorResponse(e) ==
    [statusCode |-> 500,
     message |-> IF e = "Error" THEN "message" ELSE "Error processing file.",
     body |-> <<>>]

TermActive(hp) == \E h \in Handlers : hp[h] \in {"term_try", "term_catch"}

\* Bookkeeping for the initializations that ran without a teardown in
\* progress and without another initialization in flight.
Track ==
    disturbed' = disturbed \cup
        {p \in Promises :
            /\ promiseState[p] = "pending" \/ promiseState'[p] = "pending"
            /\ \/ TermActive(hpc) \/ TermActive(hpc')
               \/ /\ promiseState[p] = "none"
                  /\ \E q \in Promises : promiseState[q] = "pending"}

\* What the jobs queued by a settlement do to the handlers.  hp and he are
\* hpc and herr as the job left them ("thrown": the try block threw before
\* any task was started), nt the tasks after the job, inst the value of
\* `instance` after it.  A handler whose join has settled goes on to
\* terminateInstance, lines 301 and 313, and from there to its return
\* statement when there is no instance to terminate.
Settle(hp, he, nt, inst) ==
    LET fresh(h) == hinv'[h] # hinv[h]
        ot(h) == IF fresh(h) THEN <<>> ELSE tasks[h]
        out(h) == IF hp[h] = "thrown" THEN "rejected"
                  ELSE IF hp[h] = "joining" THEN JoinOutcome(nt[h])
                  ELSE "pending"
        caught(h) == IF hp[h] = "thrown" THEN he[h]
                     ELSE IF out(h) = "rejected" THEN "Error"
                     ELSE he[h]
        newly(h) == {i \in 1..Len(nt[h]) :
                        /\ nt[h][i].pc \in Final
                        /\ i > Len(ot(h)) \/ ot(h)[i].pc \notin Final}
        ord(h) == (IF fresh(h) THEN <<>> ELSE order[h]) \o Ascending(newly(h))
    IN  /\ tasks' = nt
        /\ order' = [h \in Handlers |-> ord(h)]
        /\ herr' = [h \in Handlers |->
                      IF out(h) # "pending" /\ inst = 0 THEN "none" ELSE caught(h)]
        /\ hpc' = [h \in Handlers |->
                     IF out(h) = "pending" THEN hp[h]
                     ELSE IF inst = 0 THEN "returned"
                     ELSE IF out(h) = "fulfilled" THEN "term_try"
                     ELSE "term_catch"]
        /\ hterm' = [h \in Handlers |->
                       IF out(h) # "pending" THEN inst
                       ELSE IF fresh(h) THEN 0 ELSE hterm[h]]
        /\ termCalls' = [w \in Promises |->
                           termCalls[w] + Cardinality({h \in Handlers :
                               out(h) # "pending" /\ inst = w})]
        /\ response' = [h \in Handlers |->
                          IF out(h) # "pending" /\ inst = 0
                          THEN IF out(h) = "fulfilled"
                               THEN OkResponse(nt[h], ord(h))
                               ELSE ErrorResponse(caught(h))
                          ELSE IF fresh(h) THEN NoResponse ELSE response[h]]

\* ------------------------------------------------------- handler invocation
RECURSIVE SumTo(_, _)
SumTo(f, n) == IF n = 0 THEN 0 ELSE f[n] + SumTo(f, n - 1)

Settled(h) == \A i \in 1..Len(tasks[h]) : tasks[h][i].pc \in Final

\* A free handler slot takes a new invocation; `limit` bounds the number of
\* invocations of a run.
CanInvoke(h, limit) ==
    /\ hpc[h] = "idle"
    /\ SumTo(hinv, NumHandlers) < limit
    /\ createCalls < MaxCreate

\* handler, lines 283-299, up to the first pending await and through every
\* job that follows without one.
Invoke(h, ev, limit) ==
    /\ CanInvoke(h, limit)
    /\ hinv' = [hinv EXCEPT ![h] = @ + 1]
    /\ hevent' = [hevent EXCEPT ![h] = ev]
    /\ UNCHANGED <<instance, terminated>>
    /\ IF ev.kind = "noevent"
       THEN \* line 286 throws a TypeError: straight to the catch block
            /\ UNCHANGED <<initializingPromise, createCalls, promiseState>>
            /\ Settle([hpc EXCEPT ![h] = "thrown"], [herr EXCEPT ![h] = "Error"],
                      [tasks EXCEPT ![h] = <<>>], instance)
       ELSE IF IsEmptyBatch(ev)
       THEN \* lines 288-295
            /\ UNCHANGED <<initializingPromise, createCalls, promiseState,
                           termCalls>>
            /\ hpc' = [hpc EXCEPT ![h] = "returned"]
            /\ response' = [response EXCEPT ![h] = EmptyResponse]
            /\ tasks' = [tasks EXCEPT ![h] = <<>>]
            /\ order' = [order EXCEPT ![h] = <<>>]
            /\ hterm' = [hterm EXCEPT ![h] = 0]
            /\ herr' = [herr EXCEPT ![h] = "none"]
       ELSE LET m == Manager(initializingPromise, createCalls, promiseState)
                l == LaunchAll(ev.files, instance, m, <<>>)
            IN  /\ initializingPromise' = l.m.initializingPromise
                /\ createCalls' = l.m.createCalls
                /\ promiseState' = l.m.promiseState
                /\ Settle([hpc EXCEPT ![h] = "joining"],
                          [herr EXCEPT ![h] = "none"],
                          [tasks EXCEPT ![h] = l.tasks], instance)
    /\ Track

\* ------------------------------------------------- collaborator settlements
FileOf(h, i) == hevent[h].files[i]

Awaits(t, p) == t.pc \in {"init", "wait"} /\ t.prom = p

\* The task of handler h at position i becomes t; the others are untouched.
WithTask(h, i, t) == [tasks EXCEPT ![h][i] = t]

\* createWorker's promise p is fulfilled with worker p.  The caller that
\* started it resumes first (line 247, instance = worker), then the callers
\* that awaited the marker (lines 253 and 256): each returns what `instance`
\* holds when it resumes and calls sharp (line 368).
CreateWorkerResolve(p) ==
    /\ promiseState[p] = "pending"
    /\ promiseState' = [promiseState EXCEPT ![p] = "resolved"]
    /\ instance' = p
    /\ UNCHANGED <<initializingPromise, createCalls, terminated, hevent, hinv>>
    /\ Settle(hpc, herr,
              [h \in Handlers |-> [i \in 1..Len(tasks[h]) |->
                  IF Awaits(tasks[h][i], p)
                  THEN Task("sharp", instance', p, NoResult)
                  ELSE tasks[h][i]]],
              instance')
    /\ Track

\* createWorker's promise p is rejected with e.  The caller that started it
\* clears the marker and rethrows (lines 248-251); the waiters' await throws
\* the same value (line 253); each task converts it in its catch blocks.
CreateWorkerReject(p, e) ==
    /\ promiseState[p] = "pending"
    /\ promiseState' = [promiseState EXCEPT ![p] = "rejected"]
    /\ initializingPromise' = 0
    /\ UNCHANGED <<instance, createCalls, terminated, hevent, hinv>>
    /\ Settle(hpc, herr,
              [h \in Handlers |-> [i \in 1..Len(tasks[h]) |->
                  IF Awaits(tasks[h][i], p)
                  THEN processFileCatch(FileOf(h, i), performOcrOnImageCatch(e))
                  ELSE tasks[h][i]]],
              instance)
    /\ Track

Manager_Unchanged ==
    UNCHANGED <<instance, initializingPromise, createCalls, promiseState,
                terminated, hevent, hinv>>

\* sharp(...).toBuffer() resolves: worker.recognize is called, line 370.
SharpResolve(h, i) ==
    /\ i \in 1..Len(tasks[h])
    /\ tasks[h][i].pc = "sharp"
    /\ Manager_Unchanged
    /\ Settle(hpc, herr,
              WithTask(h, i, [tasks[h][i] EXCEPT !.pc = "recognize"]), instance)
    /\ Track

SharpReject(h, i, e) ==
    /\ i \in 1..Len(tasks[h])
    /\ tasks[h][i].pc = "sharp"
    /\ Manager_Unchanged
    /\ Settle(hpc, herr,
              WithTask(h, i, processFileCatch(FileOf(h, i),
                                              performOcrOnImageCatch(e))),
              instance)
    /\ Track

\* worker.recognize resolves: lines 370-374 and 349-353.
RecognizeResolve(h, i) ==
    /\ i \in 1..Len(tasks[h])
    /\ tasks[h][i].pc = "recognize"
    /\ Manager_Unchanged
    /\ Settle(hpc, herr,
              WithTask(h, i, Task("done", 0, 0, SuccessResult(FileOf(h, i), "text"))),
              instance)
    /\ Track

RecognizeReject(h, i, e) ==
    /\ i \in 1..Len(tasks[h])
    /\ tasks[h][i].pc = "recognize"
    /\ Manager_Unchanged
    /\ Settle(hpc, herr,
              WithTask(h, i, processFileCatch(FileOf(h, i),
                                              performOcrOnImageCatch(e))),
              instance)
    /\ Track

\* parsePdf.default resolves, lines 383-386: the result is data?.text, which
\* is undefined when the data carries no text.
ParsePdfResolve(h, i, text) ==
    /\ i \in 1..Len(tasks[h])
    /\ tasks[h][i].pc = "pdf"
    /\ Manager_Unchanged
    /\ Settle(hpc, herr,
              WithTask(h, i, Task("done", 0, 0, SuccessResult(FileOf(h, i), text))),
              instance)
    /\ Track

\* parsePdf.default rejects: rethrown as it is, lines 387-389.
ParsePdfReject(h, i, e) ==
    /\ i \in 1..Len(tasks[h])
    /\ tasks[h][i].pc = "pdf"
    /\ Manager_Unchanged
    /\ Settle(hpc, herr, WithTask(h, i, processFileCatch(FileOf(h, i), e)), instance)
    /\ Track

\* terminateInstance without lines 263-264: the handle and the marker stay.
TerminateResolveKeepsHandle(h) ==
    /\ hpc[h] \in {"term_try", "term_catch"}
    /\ terminated' = terminated \cup {hterm[h]}
    /\ hpc' = [hpc EXCEPT ![h] = "returned"]
    /\ hterm' = [hterm EXCEPT ![h] = 0]
    /\ herr' = [herr EXCEPT ![h] = "none"]
    /\ response' = [response EXCEPT ![h] =
                      IF hpc[h] = "term_try" THEN OkResponse(tasks[h], order[h])
                      ELSE ErrorResponse(herr[h])]
    /\ UNCHANGED <<instance, initializingPromise, createCalls, promiseState,
                   termCalls, hevent, tasks, order, hinv>>
    /\ Track

\* instance.terminate() resolves for handler h: lines 263-264, then the
\* handler's return statement.
TerminateResolve(h) ==
    /\ hpc[h] \in {"term_try", "term_catch"}
    /\ instance' = 0
    /\ initializingPromise' = 0
    /\ terminated' = terminated \cup {hterm[h]}
    /\ hpc' = [hpc EXCEPT ![h] = "returned"]
    /\ hterm' = [hterm EXCEPT ![h] = 0]
    /\ herr' = [herr EXCEPT ![h] = "none"]
    /\ response' = [response EXCEPT ![h] =
                      IF hpc[h] = "term_try" THEN OkResponse(tasks[h], order[h])
                      ELSE ErrorResponse(herr[h])]
    /\ UNCHANGED <<createCalls, promiseState, termCalls, hevent, tasks, order, hinv>>
    /\ Track

\* instance.terminate() rejects with e.  In the try block (line 301) the
\* catch block runs and calls terminateInstance again (line 313); in the
\* catch block nothing catches it and the handler's promise is rejected.
TerminateReject(h, e) ==
    /\ hpc[h] \in {"term_try", "term_catch"}
    /\ UNCHANGED <<instance, initializingPromise, createCalls, promiseState,
                   terminated, hevent, hinv>>
    /\ IF hpc[h] = "term_try"
       THEN Settle([hpc EXCEPT ![h] = "thrown"], [herr EXCEPT ![h] = e],
                   tasks, instance)
       ELSE /\ hpc' = [hpc EXCEPT ![h] = "rejected"]
            /\ hterm' = [hterm EXCEPT ![h] = 0]
            /\ herr' = [herr EXCEPT ![h] = e]
            /\ UNCHANGED <<termCalls, response, tasks, order>>
    /\ Track

\* The caller has received what the handler returned (or its rejection) and
\* the tasks the invocation started have all settled: nothing of the
\* invocation is left in the process and its slot is free again.
Deliver(h) ==
    /\ hpc[h] \in {"returned", "rejected"}
    /\ Settled(h)
    /\ hpc' = [hpc EXCEPT ![h] = "idle"]
    /\ hevent' = [hevent EXCEPT ![h] = [kind |-> "nofiles", files |-> <<>>]]
    /\ herr' = [herr EXCEPT ![h] = "none"]
    /\ response' = [response EXCEPT ![h] = NoResponse]
    /\ tasks' = [tasks EXCEPT ![h] = <<>>]
    /\ order' = [order EXCEPT ![h] = <<>>]
    /\ UNCHANGED <<instance, initializingPromise, createCalls, promiseState,
                   termCalls, terminated, hterm, hinv>>
    /\ Track

\* One job of the event loop, for the handler slots HS, the events EV and
\* the rejection values TH, with at most `limit` invocations in all.
NextOver(HS, EV, TH, limit) ==
    \/ \E h \in HS, ev \in EV : Invoke(h, ev, limit)
    \/ \E p \in Promises : CreateWorkerResolve(p)
    \/ \E p \in Promises, e \in TH : CreateWorkerReject(p, e)
    \/ \E h \in HS, i \in 1..MaxFiles : SharpResolve(h, i)
    \/ \E h \in HS, i \in 1..MaxFiles, e \in TH : SharpReject(h, i, e)
    \/ \E h \in HS, i \in 1..MaxFiles : RecognizeResolve(h, i)
    \/ \E h \in HS, i \in 1..MaxFiles, e \in TH : RecognizeReject(h, i, e)
    \/ \E h \in HS, i \in 1..MaxFiles, text \in {"text", "undefined"} :
          ParsePdfResolve(h, i, text)
    \/ \E h \in HS, i \in 1..MaxFiles, e \in TH : ParsePdfReject(h, i, e)
    \/ \E h \in HS : TerminateResolve(h)
    \/ \E h \in HS, e \in TH : TerminateReject(h, e)
    \/ \E h \in HS : Deliver(h)

\* Handler invocations that overlap in one process: two slots, each taking
\* an event with no files, with one image or with one PDF.
OverlapEvents ==
    {[kind |-> "nofiles", files |-> <<>>],
     [kind |-> "files", files |-> <<JpegFile>>],
     [kind |-> "files", files |-> <<PdfFile>>]}

Next == NextOver(Handlers, OverlapEvents, {"Error"}, MaxInvocations)

Spec == Init /\ [][Next]_vars

\* Two handler slots as in Spec, with at most MaxBatches invocations in all.
NextPair == NextOver(Handlers, OverlapEvents, {"Error"}, MaxBatches)

SpecPair == Init /\ [][NextPair]_vars

\* Every collaborator call that is pending eventually resolves or rejects:
\* createWorker, sharp, recognize, parsePdf and terminate.
CollaboratorsSettle ==
    /\ \A p \in Promises :
          WF_vars(CreateWorkerResolve(p) \/ CreateWorkerReject(p, "Error"))
    /\ \A h \in Handlers : \A i \in 1..MaxFiles :
          /\ WF_vars(SharpResolve(h, i) \/ SharpReject(h, i, "Error"))
          /\ WF_vars(RecognizeResolve(h, i) \/ RecognizeReject(h, i, "Error"))
          /\ WF_vars(\/ \E text \in {"text", "undefined"} : ParsePdfResolve(h, i, text)
                     \/ ParsePdfReject(h, i, "Error"))
    /\ \A h \in Handlers :
          WF_vars(TerminateResolve(h) \/ TerminateReject(h, "Error"))

\* SpecPair with collaborators that always settle.
SpecFair == Init /\ [][NextPair]_vars /\ CollaboratorsSettle

\* Handler invocations one after another, over every event and every
\* rejection value.
NextSeq == NextOver({1}, Events, Thrown, MaxBatches)

SpecSeq == Init /\ [][NextSeq]_vars

\* Handler invocations one after another on well-formed file entries, with
\* collaborators that reject with a value other than null or undefined.
PlainEvents ==
    {[kind |-> "nofiles", files |-> <<>>]}
    \cup {[kind |-> "files", files |-> fs] :
            fs \in SeqsUpTo(FileInputs \ {NullFile}, MaxFiles)}

NextPlain == NextOver({1}, PlainEvents, {"Error", "NoMessage"}, MaxBatches)

SpecPlain == Init /\ [][NextPlain]_vars

\* One file per invocation, over buffers around every signature length and
\* over hints that indicate an image, a PDF, neither, or are absent; and two
\* files without a filename per invocation.
SniffBuffers ==
    {Prefix(PdfSignature \o <<45>>, n) : n \in 0..5}
    \cup {Prefix(<<255, 216, 255, 224>>, n) : n \in 0..4}
    \cup {Prefix(PngSignature \o <<0>>, n) : n \in 0..9}
    \cup {<<1, 2>>, <<37, 80, 68, 71, 45>>, <<255, 216, 254, 224>>}

RouteHints == {"", "text/plain", "image/png", "application/pdf"}

RouteFiles ==
    {File(FALSE, TRUE, b, n, c) :
        b \in SniffBuffers, n \in {"", "a.bin"}, c \in RouteHints}

NamelessFiles ==
    {f \in RouteFiles :
        /\ f.filename = ""
        /\ f.contentType = ""
        /\ f.fileBuffer \in {<<1, 2>>, <<37, 80, 68, 70, 45>>}}

RouteEvents ==
    {[kind |-> "files", files |-> <<f>>] : f \in RouteFiles}
    \cup {[kind |-> "files", files |-> <<f, g>>] : f, g \in NamelessFiles}

NextRoute == NextOver({1}, RouteEvents, {"Error", "NoMessage"}, MaxBatches)

SpecRoute == Init /\ [][NextRoute]_vars

\* ------------------------------------------------------------------ claims
TaskIds == {<<h, i>> \in Handlers \X (1..MaxFiles) : i <= Len(tasks[h])}

TaskAt(x) == tasks[x[1]][x[2]]

NonEmptyBatch(h) == hevent[h].kind = "files" /\ Len(hevent[h].files) > 0

Pending == {p \in Promises : promiseState[p] = "pending"}

\* C1: whatever fails while one file is processed, processFile resolves (it
\* never rejects) to a result with success = false for that file, and a
\* handler that returns 200 returns every task's result.
C1_PerFileFailureIsolated ==
    /\ \A x \in TaskIds : TaskAt(x).pc # "rejected"
    /\ \A x \in TaskIds :
          (TaskAt(x).pc = "done" /\ TaskAt(x).result.error # "absent")
              => ~TaskAt(x).result.success
    /\ \A h \in Handlers :
          (NonEmptyBatch(h) /\ response[h].statusCode = 200)
              => \A i \in 1..Len(tasks[h]) :
                    response[h].body[i] = tasks[h][i].result

\* C2: a handler that went past the empty-batch check and returned 200
\* returns exactly one result per input file, and entry i is the result of
\* the task started for input i, in every order of completion.
C2_ResultsInInputOrder ==
    \A h \in Handlers :
        (/\ hpc[h] = "returned"
         /\ response[h].statusCode = 200
         /\ response[h].message = "Text extraction completed")
        => /\ Len(response[h].body) = Len(hevent[h].files)
           /\ \A i \in 1..Len(hevent[h].files) :
                 /\ response[h].body[i] = tasks[h][i].result
                 /\ response[h].body[i].filename \in
                       {hevent[h].files[i].filename} \cup
                       (IF hevent[h].files[i].filename = ""
                        THEN {"document", "unknown"} ELSE {})

\* C2 witness: a 200 response of two different results whose tasks settled
\* in the reverse of the input order.
C2_Witness ==
    \E h \in Handlers :
        /\ hpc[h] = "returned"
        /\ response[h].statusCode = 200
        /\ order[h] = <<2, 1>>
        /\ response[h].body[1] # response[h].body[2]

\* C3: for an initialization started on an uninitialized manager with no
\* teardown in progress while it is in flight, createWorker is called once
\* (it is the only initialization in flight, it is the marker, one caller
\* started it and every other caller waits on it) and, once it has
\* succeeded, every caller that awaited it holds its worker.
C3_SingleInitialization ==
    \A p \in Promises \ disturbed :
        /\ promiseState[p] = "pending"
              => /\ initializingPromise = p
                 /\ Pending = {p}
                 /\ Cardinality({x \in TaskIds : TaskAt(x).pc = "init"}) = 1
                 /\ \A x \in TaskIds :
                       TaskAt(x).pc \in {"init", "wait"} => TaskAt(x).prom = p
        /\ \A x \in TaskIds :
              (TaskAt(x).prom = p /\ TaskAt(x).pc \in {"sharp", "recognize"})
                  => (TaskAt(x).worker = p /\ TaskAt(x).worker # 0)

\* C3 witness: two callers awaited the same undisturbed initialization and
\* both hold its worker.
C3_Witness ==
    \E p \in Promises \ disturbed :
        /\ promiseState[p] = "resolved"
        /\ Cardinality({x \in TaskIds :
              TaskAt(x).prom = p /\ TaskAt(x).worker = p}) >= 2

\* C4: at most one createWorker initialization is in flight.
C4_AtMostOneInitInFlight == Cardinality(Pending) <= 1

\* C5: the worker a per-file task obtained from getInstance is not
\* terminated before that task's recognize call has completed.
C5_HeldHandleNotTerminated ==
    \A x \in TaskIds :
        TaskAt(x).pc \in {"sharp", "recognize"} => TaskAt(x).worker \notin terminated

\* C6: when createWorker rejects, every caller waiting on it gets the
\* failure and the manager is uninitialized again: no handle, no marker.
C6_FailedInitResetsManager ==
    [][\A p \in Promises :
          (promiseState[p] = "pending" /\ promiseState'[p] = "rejected")
              => /\ instance' = 0
                 /\ initializingPromise' = 0
                 /\ \A h \in Handlers : \A i \in 1..Len(tasks[h]) :
                       Awaits(tasks[h][i], p) => tasks'[h][i].pc \in Final]_vars

\* The routing condition of processFile, line 339, for a file with a buffer.
RoutedToImage(f) ==
    /\ ~f.isNull
    /\ f.hasBuffer
    /\ \/ includesImage(IF f.contentType # "" THEN f.contentType
                        ELSE determineMimeType(f.fileBuffer))
       \/ isImageFile(f.fileBuffer)

\* C7: with batches run one after another, the manager is uninitialized
\* when a batch's handler has returned, and every batch that routes a file
\* to image recognition calls createWorker exactly once.
C7_TornDownBetweenBatches ==
    /\ [](\A h \in Handlers :
            (hpc[h] = "returned" /\ NonEmptyBatch(h))
                => (instance = 0 /\ initializingPromise = 0))
    /\ [][\A h \in Handlers :
            (/\ hinv'[h] # hinv[h]
             /\ hevent'[h].kind = "files"
             /\ \E i \in 1..Len(hevent'[h].files) :
                   RoutedToImage(hevent'[h].files[i]))
                => createCalls' = createCalls + 1]_vars

\* C8: an invocation whose files are empty or absent returns 200 with the
\* no-files message and no results, starts no task, and leaves the manager
\* and the workers untouched.
C8_EmptyBatchNoEngine ==
    [][\A h \in Handlers :
          (/\ hinv'[h] # hinv[h]
           /\ \/ hevent'[h].kind = "nofiles"
              \/ hevent'[h].kind = "files" /\ hevent'[h].files = <<>>)
          => /\ hpc'[h] = "returned"
             /\ response'[h] = [statusCode |-> 200,
                                message |-> "No files have been passed to processing.",
                                body |-> <<>>]
             /\ tasks'[h] = <<>>
             /\ UNCHANGED <<instance, initializingPromise, createCalls,
                            promiseState, termCalls, terminated>>]_vars

\* C8 witness: an empty batch has returned while the manager held a worker.
C8_Witness ==
    \E h \in Handlers :
        /\ hpc[h] = "returned"
        /\ hevent[h] = [kind |-> "files", files |-> <<>>]
        /\ response[h] = EmptyResponse
        /\ instance # 0

\* C9: a handler invocation never rejects; it returns 200 or 500, and a 500
\* carries a message and no results and comes after the worker is released.
C9_HandlerAlwaysResponds ==
    \A h \in Handlers :
        /\ hpc[h] # "rejected"
        /\ hpc[h] = "returned" => response[h].statusCode \in {200, 500}
        /\ (hpc[h] = "returned" /\ response[h].statusCode = 500)
              => (response[h].message # "" /\ response[h].body = <<>>)

\* C10: the handler neither returns nor starts the teardown before every
\* task it launched has settled.
C10_JoinBeforeReturn ==
    \A h \in Handlers :
        hpc[h] \in {"term_try", "term_catch", "returned", "rejected"} => Settled(h)

\* C11: in every result of processFile, extractedText is present and not
\* null exactly when success is true, and error is present and a message
\* string exactly when success is false.
C11_ResultShape ==
    \A x \in TaskIds :
        TaskAt(x).pc = "done"
        => /\ TaskAt(x).result.success
                <=> TaskAt(x).result.extractedText \notin {"undefined", "null"}
           /\ ~TaskAt(x).result.success
                <=> TaskAt(x).result.error \notin {"absent", "undefined"}

\* The signatures as the claims state them: the leading bytes, whatever
\* follows them, including nothing.
CarriesPdf(buffer) == Len(buffer) >= 4 /\ Prefix(buffer, 4) = PdfSignature
CarriesJpeg(buffer) == Len(buffer) >= 3 /\ Prefix(buffer, 3) = <<255, 216, 255>>
CarriesPng(buffer) == Len(buffer) >= 8 /\ Prefix(buffer, 8) = PngSignature

\* The buffers of the files handed to processFile.
BuffersSeen ==
    UNION {{hevent[h].files[i].fileBuffer : i \in 1..Len(hevent[h].files)} :
              h \in Handlers}

\* Where processFile stands when the handler's first job ends: awaiting the
\* worker or sharp (image recognition), awaiting parsePdf (document-text
\* extraction), or already failed.
OnImagePath(t) == t.pc \in {"init", "wait", "sharp"}
OnPdfPath(t) == t.pc = "pdf"
FailedAtOnce(t) == t.pc = "done" /\ ~t.result.success

\* C12: for a file with a buffer, a hint containing 'image' routes to image
\* recognition and a hint containing 'pdf' to document-text extraction,
\* whatever the bytes are; the sniffed type of the bytes decides the route
\* only when the hint contains neither.
C12_HintDecidesRoute ==
    [][\A h \in Handlers :
          hinv'[h] # hinv[h]
          => \A i \in 1..Len(tasks'[h]) :
                LET f == hevent'[h].files[i]
                    t == tasks'[h][i]
                    sniffed == determineMimeType(f.fileBuffer)
                IN  (~f.isNull /\ f.hasBuffer)
                    => /\ includes(f.contentType, "image") => OnImagePath(t)
                       /\ (/\ includes(f.contentType, "pdf")
                           /\ ~includes(f.contentType, "image")) => OnPdfPath(t)
                       /\ (/\ ~includes(f.contentType, "pdf")
                           /\ ~includes(f.contentType, "image"))
                          => /\ sniffed \in {"image/jpeg", "image/png"}
                                   => OnImagePath(t)
                             /\ sniffed = "application/pdf" => OnPdfPath(t)
                             /\ sniffed = "application/octet-stream"
                                   => FailedAtOnce(t)]_vars

\* C13: a buffer that carries a JPEG or PNG signature, with a hint that
\* indicates neither image nor pdf, is routed to image recognition and not
\* to the unsupported-type failure.
C13_SniffOverridesHint ==
    [][\A h \in Handlers :
          hinv'[h] # hinv[h]
          => \A i \in 1..Len(tasks'[h]) :
                LET f == hevent'[h].files[i]
                IN  (/\ ~f.isNull
                     /\ f.hasBuffer
                     /\ CarriesJpeg(f.fileBuffer) \/ CarriesPng(f.fileBuffer)
                     /\ ~includes(f.contentType, "image")
                     /\ ~includes(f.contentType, "pdf"))
                    => (OnImagePath(tasks'[h][i]) /\ ~FailedAtOnce(tasks'[h][i]))]_vars

\* C14: a buffer of any length whose first 4 bytes are '%PDF' is classified
\* PDF, whose first 3 bytes are FF D8 FF JPEG, whose first 8 bytes are the
\* PNG signature PNG, also when nothing follows the signature.
C14_SignatureClassifies ==
    \A b \in BuffersSeen :
        /\ CarriesPdf(b) => determineMimeType(b) = "application/pdf"
        /\ CarriesJpeg(b) => determineMimeType(b) = "image/jpeg"
        /\ CarriesPng(b) => determineMimeType(b) = "image/png"

\* C15: a buffer shorter than a signature does not match that signature,
\* and a buffer shorter than 3 bytes, the empty one included, is classified
\* application/octet-stream.
C15_ShortBuffersUnknown ==
    \A b \in BuffersSeen :
        /\ Len(b) < 4 => ~isPdf(b)
        /\ Len(b) < 3 => ~isJpeg(b)
        /\ Len(b) < 8 => ~isPng(b)
        /\ Len(b) < 3 => determineMimeType(b) = "application/octet-stream"

\* C15 witness: processFile was given the first two bytes of the JPEG
\* signature with no hint and failed the file as unsupported.
C15_Witness ==
    /\ <<255, 216>> \in BuffersSeen
    /\ \E x \in TaskIds :
          /\ FileOf(x[1], x[2]).fileBuffer = <<255, 216>>
          /\ FileOf(x[1], x[2]).contentType = ""
          /\ FailedAtOnce(TaskAt(x))

\* C16: the results of two files without a filename carry the same
\* placeholder, whether the file succeeded or failed, and the result of a
\* file with a filename carries that filename.
C16_OnePlaceholder ==
    /\ \A x, y \in TaskIds :
          (/\ TaskAt(x).pc = "done"
           /\ TaskAt(y).pc = "done"
           /\ FileOf(x[1], x[2]).filename = ""
           /\ FileOf(y[1], y[2]).filename = "")
          => TaskAt(x).result.filename = TaskAt(y).result.filename
    /\ \A x \in TaskIds :
          (TaskAt(x).pc = "done" /\ FileOf(x[1], x[2]).filename # "")
          => TaskAt(x).result.filename = FileOf(x[1], x[2]).filename

\* C17: when createWorker rejects, every task waiting on it ends with a
\* result of success = false, the tasks awaiting parsePdf are untouched,
\* the handler of the waiting tasks has not answered 500 and is not
\* rejected (it answers 200 when it returns), and the next getInstance
\* starts a new initialization.
C17_InitFailureIsolated ==
    [][\A p \in Promises :
          (promiseState[p] = "pending" /\ promiseState'[p] = "rejected")
          => /\ \A h \in Handlers : \A i \in 1..Len(tasks[h]) :
                   /\ Awaits(tasks[h][i], p)
                         => (tasks'[h][i].pc = "done" /\ ~tasks'[h][i].result.success)
                   /\ tasks[h][i].pc = "pdf" => tasks'[h][i] = tasks[h][i]
             /\ \A h \in Handlers :
                   (\E i \in 1..Len(tasks[h]) : Awaits(tasks[h][i], p))
                   => /\ hpc'[h] # "rejected"
                      /\ response'[h].statusCode # 500
                      /\ hpc'[h] = "returned" => response'[h].statusCode = 200
             /\ getInstanceStart(instance',
                    Manager(initializingPromise', createCalls', promiseState')).outcome
                = "first"]_vars

\* No handler invocation is in progress.
Quiescent == \A h \in Handlers : hpc[h] \in {"idle", "returned", "rejected"}

\* C18: whenever no handler invocation is in progress, every worker that
\* createWorker produced has been terminated, and the manager holds no
\* handle and no in-progress marker.  Stated for the runs in which every
\* terminate() call made so far has resolved: a worker whose terminate()
\* rejects is not left behind by the manager.
C18_NoWorkerLeftBehind ==
    (Quiescent /\ \A p \in Promises : termCalls[p] > 0 => p \in terminated)
    => /\ instance = 0
       /\ initializingPromise = 0
       /\ \A p \in Promises : promiseState[p] = "resolved" => p \in terminated

\* Handler h runs terminateInstance in this step and finds no instance:
\* after the join (line 301, or line 313 when the join rejected), or at
\* line 313 after terminate() rejected at line 301.
TeardownWithoutHandle(h) ==
    /\ hpc'[h] = "returned"
    /\ instance' = 0
    /\ \/ hpc[h] = "joining"
       \/ hpc[h] = "idle" /\ ~IsEmptyBatch(hevent'[h])
       \/ hpc[h] = "term_try" /\ response'[h].statusCode = 500

\* C19: terminateInstance called when no handle exists calls no terminate
\* and leaves an initialization in progress and its marker as they are (in
\* a step that does not settle a createWorker promise, whose rejection
\* clears the marker at line 249); a
\* terminateInstance that has terminated the worker leaves no handle and no
\* marker, so that a second call after it is such a call and the worker's
\* terminate is called once.
C19_TeardownIdempotent ==
    [][/\ \A h \in Handlers :
             TeardownWithoutHandle(h)
             => /\ termCalls' = termCalls
                /\ terminated' = terminated
                /\ (\A p \in Promises :
                       promiseState[p] = "pending" => promiseState'[p] = "pending")
                   => \A p \in Promises :
                         (/\ promiseState'[p] = "pending"
                          /\ initializingPromise = p \/ promiseState[p] = "none")
                         => initializingPromise' = p
       /\ \A h \in Handlers :
             (hterm[h] # 0 /\ hterm[h] \in terminated' /\ hterm[h] \notin terminated)
             => (instance' = 0 /\ initializingPromise' = 0)]_vars

\* C19 witness: a handler whose PDF batch is done has run terminateInstance
\* with no handle while the initialization started by an overlapping
\* invocation is in progress; the initialization and its marker are in
\* place and terminate() was never called.
C19_Witness ==
    \E h \in Handlers :
        /\ hpc[h] = "returned"
        /\ NonEmptyBatch(h)
        /\ response[h].statusCode = 200
        /\ instance = 0
        /\ promiseState[1] = "pending"
        /\ initializingPromise = 1
        /\ \A p \in Promises : termCalls[p] = 0

InGetInstance(h, i) == i <= Len(tasks[h]) /\ tasks[h][i].pc \in {"init", "wait"}

\* C21: with collaborators that always settle, every getInstance caller
\* waiting on an initialization eventually resumes, and every handler
\* invocation (the n-th of its slot) eventually returns a response.
C21_EventuallyResponds ==
    /\ \A h \in Handlers : \A i \in 1..MaxFiles :
          InGetInstance(h, i) ~> ~InGetInstance(h, i)
    /\ \A h \in Handlers : \A n \in 1..MaxBatches :
          (hinv[h] = n /\ hpc[h] # "idle")
              ~> (hinv[h] = n /\ hpc[h] = "returned")

=============================================================================
